---- MODULE Spec2Model ----
(***************************************************************************)
(* Model of the bounded-concurrency scan of scan_enhanced.py:              *)
(* scan_and_store_async with its evaluator tasks (process_symbol), the     *)
(* semaphore, the insert queue and the single writer task (db_writer).     *)
(*                                                                         *)
(* asyncio is cooperative: a task runs without interruption from one       *)
(* await that suspends to the next.  Every action below is one such run:   *)
(* the return of the awaited call followed by all the synchronous code up  *)
(* to the next suspending await.  insert_queue is unbounded, so            *)
(* `await insert_queue.put(...)` never suspends; con.execute and           *)
(* con.commit are blocking calls.                                          *)
(*                                                                         *)
(* The risk-analysis pass of scan_on_risk.py (load_latest_scan, the        *)
(* open-interest filter, analyze_all and the grading functions) reads the  *)
(* tables the scan wrote; it is modelled after main().                      *)
(*                                                                         *)
(* Numbers: ratio fractions are in hundredths (0.65 is 65); open interest  *)
(* is in USDT.  A float that is missing is the sentinel None.              *)
(***************************************************************************)
EXTENDS Integers, Sequences, FiniteSets, Bags, TLC

\* ------------------------------------------------------------ parameters
MIN_OI_USDT == 2500000

TOP_ACC_SHORT_MIN == 65
GLOBAL_ACC_SHORT_MIN == 65
TOP_POS_LONG_MIN == 45

TOP_ACC_LONG_MIN == 65
GLOBAL_ACC_LONG_MIN == 65
TOP_POS_SHORT_MIN == 45

\* asyncio.Semaphore(10)
SemaphoreSlots == 10

CROWD_SHORT == "CROWD_SHORT__TOP_LONG"
CROWD_LONG == "CROWD_LONG__TOP_SHORT"

\* ---------------------------------------------------------------- bounds
\* longest symbol list of the mixed-scenario scans
MaxSymbols == 3
\* longest run of cheap symbols in the scans that fill the semaphore
MaxBurst == 11
\* longest symbol list of the mixed-scenario scans checked for termination
MaxLive == 2
MaxDup == 3
MaxRuns == 2

\* ------------------------------------------------------- values on the wire
\* Python None as the value of an Optional[float]
None == -1
\* a JSON field that holds something float()/int() cannot parse
Bad == -2
\* a JSON field that is not there (dict.get gives None)
Absent == -3

\* f(x): float(x), None when float() raises
f(x) == IF x = Bad \/ x = Absent THEN None ELSE x

\* float(x) / int(x) raise on what they cannot parse
Raises(x) == x = Bad \/ x = Absent

\* ---------------------------------------------------------- HTTP responses
\* What one GET can come to: the request raises (timeout, connection error),
\* a status code arrives, and with a 200 the body decodes or r.json() raises.
\* json is [shape, item]: shape "list" is a non-empty list whose first element
\* is item, "dict" is a non-empty object (item), "empty" an empty list or
\* object, "none" the JSON null.
Response(fault, status, shape, item) ==
    [fault |-> fault, status |-> status, json |-> [shape |-> shape, item |-> item]]

NoneJson(item) == [shape |-> "none", item |-> item]

\* the shape that stands for an exception leaving http_get_async
Raised(item) == [shape |-> "raised", item |-> item]

\* mutant of http_get_async: no try / except around the request
http_get_async_uncaught(r) ==
    IF r.fault = "request" THEN Raised(r.json.item)
    ELSE IF r.status = 200
         THEN IF r.fault = "decode" THEN Raised(r.json.item) ELSE r.json
         ELSE NoneJson(r.json.item)

\* http_get_async: the decoded body on a 200, None on anything else; an
\* exception of session.get or r.json() is caught and gives None
http_get_async(r) ==
    IF r.fault = "request" THEN NoneJson(r.json.item)
    ELSE IF r.status = 200
         THEN IF r.fault = "decode" THEN NoneJson(r.json.item) ELSE r.json
         ELSE NoneJson(r.json.item)

\* the GETs http_get_async sends for a call whose first answer is r: one
\* session.get, with no loop around it and no retry policy on the aiohttp
\* session (the Retry adapter is mounted on the requests session only)
async_gets(r) == 1

\* what kind of answer r is: "request" (the GET raised), "status" (not 200),
\* "decode" (r.json() raised), or the shape of the decoded body
Class(r) ==
    IF r.fault = "request" THEN "request"
    ELSE IF r.status # 200 THEN "status"
    ELSE IF r.fault = "decode" THEN "decode"
    ELSE r.json.shape

\* A lens / open-interest element as process_symbol holds it: some = FALSE is
\* Python None.
NoItem == [some |-> FALSE, longAccount |-> Absent, shortAccount |-> Absent,
           timestamp |-> Absent, sumOpenInterestValue |-> Absent]

Item(l, s, ts, oi) == [some |-> TRUE, longAccount |-> l, shortAccount |-> s,
                       timestamp |-> ts, sumOpenInterestValue |-> oi]

\* latest_async: data[0] of a non-empty list, None otherwise
latest_async(r) ==
    LET data == http_get_async(r)
    IN IF data.shape # "list" THEN NoItem ELSE data.item

\* get_premium_data_async: <<funding_rate, current_price>>; a float() that
\* raises on either field gives <<None, None>>
get_premium_data_async(r) ==
    LET data == http_get_async(r)
    IN IF data.shape # "dict" THEN <<None, None>>
       ELSE IF (data.item.lastFundingRate # Absent /\ Raises(data.item.lastFundingRate))
               \/ (data.item.markPrice # Absent /\ Raises(data.item.markPrice))
            THEN <<None, None>>
            ELSE << IF data.item.lastFundingRate # Absent
                    THEN data.item.lastFundingRate ELSE None,
                    IF data.item.markPrice # Absent
                    THEN data.item.markPrice ELSE None >>

\* get_volume_data_async, first try block: volume_24h from the 24h ticker
ticker_volume(r) ==
    LET ticker == http_get_async(r)
    IN IF ticker.shape = "dict" /\ ticker.item.volume # Absent
          /\ ~Raises(ticker.item.volume)
       THEN ticker.item.volume ELSE None

\* get_volume_data_async, second try block: volume_2h from klines[0][7]
klines_volume(r) ==
    LET klines == http_get_async(r)
    IN IF klines.shape = "list" /\ ~Raises(klines.item.quoteVolume)
       THEN klines.item.quoteVolume ELSE None

\* ---------------------------------------------------- the upstream data source
\* The upstream API is an opaque source: for every call it may answer with any
\* response of the instrument's market scenario.  Failures are common to all
\* endpoints; d is the element the endpoint's answers are made of.
Failures(d) ==
    { Response("request", 0, "none", d),     \* timeout, connection error
      Response("none", 500, "none", d),      \* non-200 status
      Response("decode", 200, "none", d),    \* 200, body does not decode
      Response("none", 200, "empty", d) }    \* 200, empty list / object

Ok(shape, item) == Response("none", 200, shape, item)

Lens(l, s, ts) == Item(l, s, ts, Absent)
OpenInterest(v) == Item(Absent, Absent, Absent, v)
Premium(fr, mp) == [lastFundingRate |-> fr, markPrice |-> mp]
Ticker(v) == [volume |-> v]
Kline(qv) == [quoteVolume |-> qv]

\* a lens answer that is a JSON object instead of a list (an error payload)
NonList(d) == Ok("dict", d)

Scenarios == {"any", "both", "crowd_short", "lens_timeout", "bad_timestamp",
              "oi_down", "drifting"}

\* the scenarios the lists of several instruments are made of
Mixed == {"both", "crowd_short", "lens_timeout", "bad_timestamp", "oi_down"}

\* the "any" scenario: every answer the source can give, with values on both
\* sides of each threshold
AnyAnswers(e) ==
    CASE e = "top_acc" ->
           Failures(NoItem) \cup {NonList(NoItem)} \cup
           {Ok("list", Lens(l, s, ts)) :
               l \in {Bad, 64, 65}, s \in {Bad, 64, 65}, ts \in {Bad, 1000}}
      [] e = "glob_acc" ->
           Failures(NoItem) \cup {NonList(NoItem)} \cup
           {Ok("list", Lens(l, s, 1000)) : l \in {Bad, 64, 65}, s \in {Bad, 64, 65}}
      [] e = "top_pos" ->
           Failures(NoItem) \cup {NonList(NoItem)} \cup
           {Ok("list", Lens(l, s, 1000)) : l \in {Bad, 44, 45}, s \in {Bad, 44, 45}}
      [] e = "oi" ->
           Failures(NoItem) \cup {NonList(NoItem)} \cup
           {Ok("list", OpenInterest(v)) :
               v \in {Absent, Bad, MIN_OI_USDT - 1, MIN_OI_USDT, MIN_OI_USDT + 1}}
      [] e = "premium" ->
           Failures(Premium(Absent, Absent)) \cup
           {Ok("dict", Premium(fr, mp)) :
               fr \in {Absent, Bad, 1}, mp \in {Absent, Bad, 100}}
      [] e = "ticker" ->
           Failures(Ticker(Absent)) \cup
           {Ok("dict", Ticker(v)) : v \in {Absent, Bad, 5000}}
      [] e = "klines" ->
           Failures(Kline(Absent)) \cup
           {Ok("list", Kline(qv)) : qv \in {Absent, Bad, 700}}

\* both setups hold, open interest exactly at the minimum, all enrichment there
BothAnswers(e) ==
    CASE e \in {"top_acc", "glob_acc"} -> {Ok("list", Lens(65, 65, 1000))}
      [] e = "top_pos" -> {Ok("list", Lens(45, 45, 1000))}
      [] e = "oi" -> {Ok("list", OpenInterest(MIN_OI_USDT))}
      [] e = "premium" -> {Ok("dict", Premium(1, 100))}
      [] e = "ticker" -> {Ok("dict", Ticker(5000))}
      [] e = "klines" -> {Ok("list", Kline(700))}

\* setup A alone (0.70 / 0.70 / 0.50), the premium call times out
CrowdShortAnswers(e) ==
    CASE e \in {"top_acc", "glob_acc"} -> {Ok("list", Lens(30, 70, 1000))}
      [] e = "top_pos" -> {Ok("list", Lens(50, 50, 1000))}
      [] e = "oi" -> {Ok("list", OpenInterest(2 * MIN_OI_USDT))}
      [] e = "premium" -> {Response("request", 0, "none", Premium(Absent, Absent))}
      [] e = "ticker" -> {Ok("dict", Ticker(5000))}
      [] e = "klines" -> {Ok("list", Kline(700))}

\* the global-account lens call times out
LensTimeoutAnswers(e) ==
    CASE e \in {"top_acc", "top_pos"} -> {Ok("list", Lens(30, 70, 1000))}
      [] e = "glob_acc" -> {Response("request", 0, "none", NoItem)}
      [] OTHER -> {}

\* int(top_acc.get("timestamp", 0)) raises inside the evaluator body
BadTimestampAnswers(e) ==
    CASE e = "top_acc" -> {Ok("list", Lens(30, 70, Bad))}
      [] e = "glob_acc" -> {Ok("list", Lens(30, 70, 1000))}
      [] e = "top_pos" -> {Ok("list", Lens(50, 50, 1000))}
      [] OTHER -> {}

\* setup B alone, the open-interest call answers 500
OIDownAnswers(e) ==
    CASE e \in {"top_acc", "glob_acc"} -> {Ok("list", Lens(70, 30, 1000))}
      [] e = "top_pos" -> {Ok("list", Lens(50, 50, 1000))}
      [] e = "oi" -> {Response("none", 500, "none", NoItem)}
      [] OTHER -> {}

\* both setups hold and the open interest moves between two calls
DriftingAnswers(e) ==
    IF e = "oi"
    THEN {Ok("list", OpenInterest(MIN_OI_USDT)), Ok("list", OpenInterest(MIN_OI_USDT + 1))}
    ELSE BothAnswers(e)

\* the answers of endpoint e for an instrument in scenario scn
Answers(scn, e) ==
    CASE scn = "any" -> AnyAnswers(e)
      [] scn = "both" -> BothAnswers(e)
      [] scn = "crowd_short" -> CrowdShortAnswers(e)
      [] scn = "lens_timeout" -> LensTimeoutAnswers(e)
      [] scn = "bad_timestamp" -> BadTimestampAnswers(e)
      [] scn = "oi_down" -> OIDownAnswers(e)
      [] scn = "drifting" -> DriftingAnswers(e)

\* ------------------------------------------------------------------ state
VARIABLES
    storage,        \* the database file: "ok", or "failing" (a write may raise)
    scan_runs,      \* the scan_runs table
    sqlite_sequence,\* the last run_id AUTOINCREMENT gave out
    exchange,       \* history: the last answer of /fapi/v1/exchangeInfo
    program,        \* main(): "start", "load", "scan", "done", "raised_..."
    symbols,        \* the symbols argument of scan_and_store_async
    upstream,       \* the market scenario of each instrument
    run_id,         \* the run_id argument
    pending,        \* process_symbol tasks waiting in `async with semaphore`
    semaphore,      \* the semaphore's free slots
    active,         \* bag of process_symbol tasks inside the semaphore
    finished,       \* bag of process_symbol tasks that have returned
    scanned,
    passed_traders,
    inserted,
    insert_queue,
    put_log,        \* history: every row put on insert_queue, in order
    write_log,      \* history: every row db_writer wrote, in order
    scan_hits,      \* the scan_hits table
    writer_pc,      \* db_writer: "poll" in wait_for(insert_queue.get()), "done",
                    \* "raised"; "idle" outside a scan
    main_pc,        \* scan_and_store_async: "running", "returned", "raised";
                    \* "idle" outside a scan
    result,         \* its return value
    risk_pc,        \* scan_on_risk main(): "idle", "start", "analyse", "done"
    stored,         \* the rows of scan_hits in the order they were written
    market,         \* what the risk metrics of the coins look like
    todo,           \* analyze_all: the signals not analysed yet
    results         \* analyze_all: results

\* the state of the scanner (scan_enhanced.py)
scanner == <<storage, scan_runs, sqlite_sequence, exchange, program,
             symbols, upstream, run_id, pending, semaphore, active, finished,
             scanned, passed_traders, inserted, insert_queue, put_log, write_log,
             scan_hits, writer_pc, main_pc, result>>

\* the state of the risk-analysis pass (scan_on_risk.py)
risk == <<risk_pc, stored, market, todo, results>>

vars == <<scanner, risk>>

Symbols == {"AAAUSDT", "BBBUSDT"}

total_symbols == Len(symbols)

\* ------------------------------------------------------ process_symbol locals
\* A task: its symbol, the call it awaits (pc), the locals assigned so far, and
\* history fields: calls (endpoints called, in order), got (the kind of answer
\* each call that returned came to, in order), passed (it incremented
\* passed_traders), raised (an exception was raised in the try block), slept
\* (it went through the pacing sleep), rows (records it put on the queue),
\* fetched (what http_get_async gave back for each call that returned: the
\* shape of the body, "none" for None), gets (GET requests sent so far), raw
\* (the bodies the three enrichment calls were answered with).
NewTask(sym) ==
    [sym |-> sym, pc |-> "top_acc",
     top_acc |-> NoItem, glob_acc |-> NoItem, top_pos |-> NoItem,
     oi_usdt |-> None, funding_rate |-> None, current_price |-> None,
     volume_24h |-> None, volume_2h |-> None,
     calls |-> <<"top_acc">>, got |-> <<>>, passed |-> FALSE, raised |-> FALSE,
     slept |-> FALSE, rows |-> 0, fetched |-> <<>>, gets |-> 0,
     raw |-> [premium |-> Premium(Absent, Absent), ticker |-> Ticker(Absent),
              klines |-> Kline(Absent)]]

ta_long(t) == f(t.top_acc.longAccount)
ta_short(t) == f(t.top_acc.shortAccount)
ga_long(t) == f(t.glob_acc.longAccount)
ga_short(t) == f(t.glob_acc.shortAccount)
tp_long(t) == f(t.top_pos.longAccount)
tp_short(t) == f(t.top_pos.shortAccount)

\* if not top_acc or not glob_acc or not top_pos
LensMissing(t) == ~t.top_acc.some \/ ~t.glob_acc.some \/ ~t.top_pos.some

\* mutant of ParseFailed: only the long fields are looked at
ParseFailedLongOnly(t) ==
    None \in {ta_long(t), ga_long(t), tp_long(t)}

\* if None in (ta_long, ta_short, ga_long, ga_short, tp_long, tp_short)
ParseFailed(t) ==
    None \in {ta_long(t), ta_short(t), ga_long(t), ga_short(t), tp_long(t), tp_short(t)}

\* int(top_acc.get("timestamp", 0)): the exception it raises, "none" if none
TimestampError(t) == IF t.top_acc.timestamp = Bad THEN "ValueError" ELSE "none"
ts_ms(t) == IF t.top_acc.timestamp = Absent THEN 0 ELSE t.top_acc.timestamp

\* mutant of setup_a: the top-position condition is left out
setup_a_loose(t) ==
    /\ ta_short(t) >= TOP_ACC_SHORT_MIN
    /\ ga_short(t) >= GLOBAL_ACC_SHORT_MIN

setup_a(t) ==
    /\ ta_short(t) >= TOP_ACC_SHORT_MIN
    /\ ga_short(t) >= GLOBAL_ACC_SHORT_MIN
    /\ tp_long(t) >= TOP_POS_LONG_MIN

\* mutant of setup_b: the global-account test is the one of setup A
setup_b_half_mirrored(t) ==
    /\ ta_long(t) >= TOP_ACC_LONG_MIN
    /\ ga_short(t) >= GLOBAL_ACC_SHORT_MIN
    /\ tp_short(t) >= TOP_POS_SHORT_MIN

\* mutant of setup_b: the top-position threshold is left out
setup_b_loose(t) ==
    /\ ta_long(t) >= TOP_ACC_LONG_MIN
    /\ ga_long(t) >= GLOBAL_ACC_LONG_MIN

setup_b(t) ==
    /\ ta_long(t) >= TOP_ACC_LONG_MIN
    /\ ga_long(t) >= GLOBAL_ACC_LONG_MIN
    /\ tp_short(t) >= TOP_POS_SHORT_MIN

\* mutant of CheapFilter: the `if not (setup_a or setup_b): return` is left out
CheapFilterNoGate(t) ==
    IF LensMissing(t) THEN "return"
    ELSE IF ParseFailed(t) THEN "return"
    ELSE IF TimestampError(t) # "none" THEN "raise"
    ELSE "pass"

\* The code between the third lens call and the open-interest call:
\* "return" leaves process_symbol, "raise" leaves the try block with an
\* exception, "pass" goes on to the open-interest call.
CheapFilter(t) ==
    IF LensMissing(t) THEN "return"
    ELSE IF ParseFailed(t) THEN "return"
    ELSE IF TimestampError(t) # "none" THEN "raise"
    ELSE IF ~(setup_a(t) \/ setup_b(t)) THEN "return"
    ELSE "pass"

\* mutant of Caught: except KeyError
CaughtKeyError(exc) == exc = "KeyError"

\* except Exception: every exception the body raises is an Exception
Caught(exc) == exc \in {"ValueError", "TypeError", "KeyError", "AttributeError"}

\* mutant of OIGate: <= instead of <
OIGateStrict(oi_usdt) == ~(oi_usdt = None \/ oi_usdt <= MIN_OI_USDT)

\* if oi_usdt is None or oi_usdt < MIN_OI_USDT: return
OIGate(oi_usdt) == ~(oi_usdt = None \/ oi_usdt < MIN_OI_USDT)

Row(t, setup) ==
    [run_id |-> run_id, symbol |-> t.sym, setup |-> setup,
     timestamp_ms |-> ts_ms(t), oi_usdt |-> t.oi_usdt,
     top_acc_long |-> ta_long(t), top_acc_short |-> ta_short(t),
     glob_acc_long |-> ga_long(t), glob_acc_short |-> ga_short(t),
     top_pos_long |-> tp_long(t), top_pos_short |-> tp_short(t),
     funding_rate |-> t.funding_rate, current_price |-> t.current_price,
     volume_24h |-> t.volume_24h, volume_2h |-> t.volume_2h]

\* mutant of Rows: nothing is put when the premium call gave nothing
RowsNeedPremium(t) ==
    IF t.funding_rate = None /\ t.current_price = None THEN <<>>
    ELSE (IF setup_a(t) THEN <<Row(t, CROWD_SHORT)>> ELSE <<>>)
         \o (IF setup_b(t) THEN <<Row(t, CROWD_LONG)>> ELSE <<>>)

\* mutant of Rows: the crowd-long record is put first
RowsLongFirst(t) ==
    (IF setup_b(t) THEN <<Row(t, CROWD_LONG)>> ELSE <<>>)
    \o (IF setup_a(t) THEN <<Row(t, CROWD_SHORT)>> ELSE <<>>)

\* mutant of Rows: every record is put twice
RowsTwice(t) ==
    (IF setup_a(t) THEN <<Row(t, CROWD_SHORT), Row(t, CROWD_SHORT)>> ELSE <<>>)
    \o (IF setup_b(t) THEN <<Row(t, CROWD_LONG), Row(t, CROWD_LONG)>> ELSE <<>>)

\* the rows process_symbol puts on the queue, in order
Rows(t) ==
    (IF setup_a(t) THEN <<Row(t, CROWD_SHORT)>> ELSE <<>>)
    \o (IF setup_b(t) THEN <<Row(t, CROWD_LONG)>> ELSE <<>>)

\* mutant of Upsert: a plain insert into a table without the primary key
UpsertAppends(table, row) == table \cup {row}

\* mutant of Key: the setup is not part of the primary key
KeyWithoutSetup(row) == <<row.run_id, row.symbol>>

\* PRIMARY KEY (run_id, symbol, setup)
Key(row) == <<row.run_id, row.symbol, row.setup>>

\* INSERT OR REPLACE INTO scan_hits
Upsert(table, row) == {x \in table : Key(x) # Key(row)} \cup {row}

\* --------------------------------------------------------------- semaphore
\* mutant of CanAcquire: acquire never waits
CanAcquireAlways == TRUE

\* acquire goes through only while a slot is free
CanAcquire == semaphore > 0

One(t) == SetToBag({t})

Range(s) == {s[i] : i \in DOMAIN s}

\* task t goes on as t2, still inside the semaphore
Move(t, t2) ==
    /\ active' = (active (-) One(t)) (+) One(t2)
    /\ UNCHANGED <<finished, semaphore>>

\* mutant of Leave: the slot is not given back
LeaveKeepsSlot(t, t2) ==
    /\ active' = active (-) One(t)
    /\ finished' = finished (+) One(t2)
    /\ UNCHANGED semaphore

\* task t leaves `async with semaphore` and process_symbol as t2
Leave(t, t2) ==
    /\ active' = active (-) One(t)
    /\ finished' = finished (+) One(t2)
    /\ semaphore' = semaphore + 1

\* task t awaits endpoint e next
Call(t, e) == [t EXCEPT !.pc = e, !.calls = Append(@, e)]

\* task t takes answer r of the call it awaits
Got(t, r) == [t EXCEPT !.got = Append(@, Class(r)),
                       !.fetched = Append(@, http_get_async(r).shape),
                       !.gets = @ + async_gets(r)]

\* mutant of Put: the evaluator executes the statement itself as well
PutAndWrite(rows) ==
    /\ insert_queue' = insert_queue \o rows
    /\ put_log' = put_log \o rows
    /\ scan_hits' = scan_hits \cup Range(rows)
    /\ UNCHANGED <<write_log, inserted>>

\* await insert_queue.put(...): the queue is unbounded, so put never waits;
\* the evaluator touches nothing of the database
Put(rows) ==
    /\ insert_queue' = insert_queue \o rows
    /\ put_log' = put_log \o rows
    /\ UNCHANGED <<scan_hits, write_log, inserted>>

\* mutant of AllScanned: the loop ends at the first timeout
AllScannedAlways == TRUE

\* mutant of AllScanned: > instead of >=
AllScannedStrict == scanned > total_symbols

\* if scanned >= total_symbols: break
AllScanned == scanned >= total_symbols

\* what no step of scan_and_store_async changes: the database file's health,
\* main()'s own state and the arguments
fixed == <<storage, scan_runs, sqlite_sequence, exchange, program,
           symbols, upstream, run_id, risk>>
writer == <<inserted, insert_queue, put_log, write_log, scan_hits, writer_pc>>

\* ------------------------------------------------------------ process_symbol
\* async with semaphore: scanned += 1, then the first lens call is awaited.
\* gather starts the tasks in list order and the semaphore wakes its waiters
\* first-in first-out, so the tasks enter in list order.
Acquire ==
    /\ pending # <<>>
    /\ CanAcquire
    /\ semaphore' = semaphore - 1
    /\ pending' = Tail(pending)
    /\ scanned' = scanned + 1
    /\ active' = active (+) One(NewTask(Head(pending)))
    /\ UNCHANGED <<fixed, finished, passed_traders, writer, main_pc, result>>

\* topLongShortAccountRatio returns; globalLongShortAccountRatio is called
TopAccReturns ==
    \E t \in BagToSet(active) :
        /\ t.pc = "top_acc"
        /\ \E r \in Answers(upstream[t.sym], "top_acc") :
               Move(t, Call([Got(t, r) EXCEPT !.top_acc = latest_async(r)], "glob_acc"))
        /\ UNCHANGED <<fixed, pending, scanned, passed_traders, writer, main_pc, result>>

\* globalLongShortAccountRatio returns; topLongShortPositionRatio is called
GlobAccReturns ==
    \E t \in BagToSet(active) :
        /\ t.pc = "glob_acc"
        /\ \E r \in Answers(upstream[t.sym], "glob_acc") :
               Move(t, Call([Got(t, r) EXCEPT !.glob_acc = latest_async(r)], "top_pos"))
        /\ UNCHANGED <<fixed, pending, scanned, passed_traders, writer, main_pc, result>>

\* topLongShortPositionRatio returns; the cheap filter runs and, when it
\* passes, passed_traders += 1 and openInterestHist is called
TopPosReturns ==
    \E t \in BagToSet(active) :
        /\ t.pc = "top_pos"
        /\ \E r \in Answers(upstream[t.sym], "top_pos") :
               LET t2 == [Got(t, r) EXCEPT !.top_pos = latest_async(r)]
                   go == CheapFilter(t2)
               IN CASE go = "return" ->
                         /\ Leave(t, [t2 EXCEPT !.pc = "done"])
                         /\ UNCHANGED <<passed_traders, main_pc>>
                    [] go = "raise" /\ Caught(TimestampError(t2)) ->
                         \* except Exception: print, then the pacing sleep
                         /\ Move(t, [t2 EXCEPT !.pc = "sleep", !.raised = TRUE])
                         /\ UNCHANGED <<passed_traders, main_pc>>
                    [] go = "raise" /\ ~Caught(TimestampError(t2)) ->
                         \* the exception leaves process_symbol; gather hands
                         \* it to scan_and_store_async
                         /\ Leave(t, [t2 EXCEPT !.pc = "escaped", !.raised = TRUE])
                         /\ main_pc' = IF main_pc = "running" THEN "raised" ELSE main_pc
                         /\ UNCHANGED passed_traders
                    [] go = "pass" ->
                         /\ Move(t, Call([t2 EXCEPT !.passed = TRUE], "oi"))
                         /\ passed_traders' = passed_traders + 1
                         /\ UNCHANGED main_pc
        /\ UNCHANGED <<fixed, pending, scanned, writer, result>>

\* openInterestHist returns; the open-interest gate runs and, when it passes,
\* premiumIndex is called
OpenInterestReturns ==
    \E t \in BagToSet(active) :
        /\ t.pc = "oi"
        /\ \E r \in Answers(upstream[t.sym], "oi") :
               LET oi == latest_async(r)
                   t2 == IF oi.some
                         THEN [Got(t, r) EXCEPT !.oi_usdt = f(oi.sumOpenInterestValue)]
                         ELSE Got(t, r)
               IN IF oi.some /\ OIGate(t2.oi_usdt)
                  THEN Move(t, Call(t2, "premium"))
                  ELSE Leave(t, [t2 EXCEPT !.pc = "done"])
        /\ UNCHANGED <<fixed, pending, scanned, passed_traders, writer, main_pc, result>>

\* premiumIndex returns; ticker/24hr is called
PremiumReturns ==
    \E t \in BagToSet(active) :
        /\ t.pc = "premium"
        /\ \E r \in Answers(upstream[t.sym], "premium") :
               LET p == get_premium_data_async(r)
               IN Move(t, Call([Got(t, r) EXCEPT !.funding_rate = p[1],
                                         !.current_price = p[2],
                                         !.raw.premium = r.json.item], "ticker"))
        /\ UNCHANGED <<fixed, pending, scanned, passed_traders, writer, main_pc, result>>

\* ticker/24hr returns; klines is called
TickerReturns ==
    \E t \in BagToSet(active) :
        /\ t.pc = "ticker"
        /\ \E r \in Answers(upstream[t.sym], "ticker") :
               Move(t, Call([Got(t, r) EXCEPT !.volume_24h = ticker_volume(r),
                                      !.raw.ticker = r.json.item], "klines"))
        /\ UNCHANGED <<fixed, pending, scanned, passed_traders, writer, main_pc, result>>

\* klines returns; the rows are put on the queue and the pacing sleep starts
KlinesReturns ==
    \E t \in BagToSet(active) :
        /\ t.pc = "klines"
        /\ \E r \in Answers(upstream[t.sym], "klines") :
               LET t2 == [Got(t, r) EXCEPT !.volume_2h = klines_volume(r),
                                           !.raw.klines = r.json.item]
               IN /\ Put(Rows(t2))
                  /\ Move(t, [t2 EXCEPT !.pc = "sleep", !.rows = Len(Rows(t2))])
        /\ UNCHANGED <<fixed, pending, scanned, passed_traders, writer_pc,
                       main_pc, result>>

\* asyncio.sleep(SLEEP_S) returns; the semaphore is released
SleepReturns ==
    \E t \in BagToSet(active) :
        /\ t.pc = "sleep"
        /\ Leave(t, [t EXCEPT !.pc = "done", !.slept = TRUE])
        /\ UNCHANGED <<fixed, pending, scanned, passed_traders, writer, main_pc, result>>

\* ------------------------------------------------------------------ db_writer
\* how con.execute / con.commit can end: normally, or, on a failing database
\* file, with an sqlite3.Error
WriteOutcomes ==
    IF storage = "ok" THEN {"ok"} ELSE {"ok", "sqlite3.Error"}

\* mutant of WriterCatches: except Exception
WriterCatchesAll(exc) == TRUE

\* db_writer's only handler: except asyncio.TimeoutError
WriterCatches(exc) == exc = "asyncio.TimeoutError"

\* wait_for(insert_queue.get()) returns a row: execute, commit, inserted += 1.
\* execute and commit are blocking calls with no await between them, so no
\* other task runs during a write.  An exception of theirs that db_writer
\* does not catch ends db_writer, and the outer gather raises it in
\* scan_and_store_async at once; the failed row stays unwritten.
WriterGet ==
    /\ writer_pc = "poll"
    /\ insert_queue # <<>>
    /\ insert_queue' = Tail(insert_queue)
    /\ \E outcome \in WriteOutcomes :
           CASE outcome = "ok" ->
                  /\ scan_hits' = Upsert(scan_hits, Head(insert_queue))
                  /\ write_log' = Append(write_log, Head(insert_queue))
                  /\ inserted' = inserted + 1
                  /\ UNCHANGED <<writer_pc, main_pc>>
             [] outcome # "ok" /\ WriterCatches(outcome) ->
                  \* handled as the timeout is
                  /\ writer_pc' = IF AllScanned THEN "done" ELSE "poll"
                  /\ UNCHANGED <<scan_hits, write_log, inserted, main_pc>>
             [] outcome # "ok" /\ ~WriterCatches(outcome) ->
                  /\ writer_pc' = "raised"
                  /\ main_pc' = IF main_pc = "running" THEN "raised" ELSE main_pc
                  /\ UNCHANGED <<scan_hits, write_log, inserted>>
    /\ UNCHANGED <<fixed, pending, semaphore, active, finished, scanned,
                   passed_traders, put_log, result>>

\* the queue stayed empty for one second: asyncio.TimeoutError
WriterTimeout ==
    /\ writer_pc = "poll"
    /\ insert_queue = <<>>
    /\ writer_pc' = IF AllScanned THEN "done" ELSE "poll"
    /\ UNCHANGED <<fixed, pending, semaphore, active, finished, scanned,
                   passed_traders, inserted, insert_queue, put_log, write_log,
                   scan_hits, main_pc, result>>

\* --------------------------------------------------------- scan_and_store_async
\* both gathers are done: return inserted
Return ==
    /\ main_pc = "running"
    /\ writer_pc = "done"
    /\ pending = <<>>
    /\ active = EmptyBag
    /\ main_pc' = "returned"
    /\ result' = inserted
    /\ UNCHANGED <<fixed, pending, semaphore, active, finished, scanned,
                   passed_traders, writer>>

Next ==
    \/ Acquire
    \/ TopAccReturns
    \/ GlobAccReturns
    \/ TopPosReturns
    \/ OpenInterestReturns
    \/ PremiumReturns
    \/ TickerReturns
    \/ KlinesReturns
    \/ SleepReturns
    \/ WriterGet
    \/ WriterTimeout
    \/ Return

\* -------------------------------------------------------------- specifications
\* the locals of scan_and_store_async when it has created db_writer and one
\* process_symbol task per symbol
Created(syms) ==
    /\ pending = syms
    /\ semaphore = SemaphoreSlots
    /\ active = EmptyBag
    /\ finished = EmptyBag
    /\ scanned = 0
    /\ passed_traders = 0
    /\ inserted = 0
    /\ insert_queue = <<>>
    /\ put_log = <<>>
    /\ write_log = <<>>
    /\ writer_pc = "poll"
    /\ main_pc = "running"
    /\ result = None

\* no scan is running: the locals are gone
NoScan ==
    /\ pending = <<>>
    /\ semaphore = SemaphoreSlots
    /\ active = EmptyBag
    /\ finished = EmptyBag
    /\ scanned = 0
    /\ passed_traders = 0
    /\ inserted = 0
    /\ insert_queue = <<>>
    /\ put_log = <<>>
    /\ write_log = <<>>
    /\ writer_pc = "idle"
    /\ main_pc = "idle"
    /\ result = None

\* scan_on_risk.py is not running
NoRisk ==
    /\ risk_pc = "idle"
    /\ stored = <<>>
    /\ market = "flat"
    /\ todo = <<>>
    /\ results = <<>>

\* a row of scan_runs (run_ts, the wall clock, is left out)
RunRecord(id) == [run_id |-> id, period |-> "5m", min_oi_usdt |-> MIN_OI_USDT]

\* the state when scan_and_store_async has created its tasks, in the first
\* run of main() on a database file of health stg
StartOn(syms, scn, stg) ==
    /\ storage = stg
    /\ scan_runs = {RunRecord(1)}
    /\ sqlite_sequence = 1
    /\ exchange = [transient |-> 0, final |-> "ok"]
    /\ program = "scan"
    /\ symbols = syms
    /\ upstream = scn
    /\ run_id = 1
    /\ scan_hits = {}
    /\ Created(syms)
    /\ NoRisk

\* the same on a database file that works
Start(syms, scn) == StartOn(syms, scn, "ok")

Lists(n) == UNION {[1..k -> Symbols] : k \in 0..n}

\* scans of lists of up to n symbols, every instrument in one of the fixed
\* scenarios
ScansOn(n, stg) ==
    \E syms \in Lists(n) :
    \E scn \in [Symbols -> Mixed] :
        /\ \A s \in Symbols \ Range(syms) : scn[s] = "lens_timeout"
        /\ StartOn(syms, scn, stg)

Scans(n) == ScansOn(n, "ok")

Init == Scans(MaxSymbols)

Spec == Init /\ [][Next]_vars

\* Every awaited call returns or times out, every sleep ends, the writer's
\* wait_for ends after a second and the event loop runs a task that is ready:
\* the scan does not stop while a step can be taken.
Fairness == WF_vars(Next)

\* one instrument, the source free to answer anything
InitOne ==
    \E s \in Symbols : Start(<<s>>, [x \in Symbols |-> "any"])

SpecOne == InitOne /\ [][Next]_vars

Burst(n) == [i \in 1..n |-> "AAAUSDT"]

\* long lists: a run of instruments whose lens call times out, with at most
\* one instrument that emits both records before or after it
InitBurst ==
    \E n \in 0..MaxBurst :
    \E syms \in {Burst(n), <<"BBBUSDT">> \o Burst(n), Burst(n) \o <<"BBBUSDT">>} :
        Start(syms, [x \in Symbols |-> IF x = "AAAUSDT" THEN "lens_timeout" ELSE "both"])

SpecBurst == InitBurst /\ [][Next]_vars

\* termination is checked on the short mixed lists and on the long lists
InitLive == Scans(MaxLive) \/ InitBurst

SpecLive == InitLive /\ [][Next]_vars /\ Fairness

\* one instrument listed several times while its open interest moves: the same
\* key is written again, with the same or with other values
InitDup ==
    \E n \in 1..MaxDup : Start(Burst(n), [x \in Symbols |-> "drifting"])

SpecDup == InitDup /\ [][Next]_vars

\* the short mixed lists on a database file whose writes may fail
InitFault == ScansOn(MaxLive, "failing")

SpecFault == InitFault /\ [][Next]_vars

\* ----------------------------------------------------------------------- main
\* Retry(total=5, ...) on the requests session
RetryTotal == 5

\* An answer of /fapi/v1/exchangeInfo to the requests session: `transient`
\* answers with a status of status_forcelist (429, 500, 502, 503, 504) come
\* first, then `final`: "ok" (200 with the catalog) or "not_found" (a status
\* outside the list).
ExchangeAnswers ==
    [transient : {0, RetryTotal, RetryTotal + 1}, final : {"ok", "not_found"}]

NoAnswer == [transient |-> 0, final |-> "none"]

\* mutant of http_get: without r.raise_for_status()
http_get_unchecked(a) == "json"

\* http_get: the adapter retries a listed status up to RetryTotal times; with
\* the retries used up it hands back the last answer
\* (raise_on_status=False) and r.raise_for_status() raises on it, as on any
\* other status >= 400; else r.json()
http_get(a) ==
    IF a.transient > RetryTotal THEN "raise"
    ELSE IF a.final = "ok" THEN "json" ELSE "raise"

\* an entry of exchangeInfo's "symbols"
Entry(sym, ct, qa, st) ==
    [symbol |-> sym, contractType |-> ct, quoteAsset |-> qa, status |-> st]

Perp(sym) == Entry(sym, "PERPETUAL", "USDT", "TRADING")

\* the catalogs the exchange may hold
Catalogs ==
    { <<>>,
      <<Perp("AAAUSDT")>>,
      <<Perp("AAAUSDT"), Perp("BBBUSDT")>>,
      <<Perp("BBBUSDT"), Perp("AAAUSDT")>>,
      <<Perp("AAAUSDT"), Entry("BBBUSDT", "CURRENT_QUARTER", "USDT", "TRADING")>>,
      <<Entry("AAAUSDT", "PERPETUAL", "BUSD", "TRADING"), Perp("BBBUSDT")>>,
      <<Perp("AAAUSDT"), Entry("BBBUSDT", "PERPETUAL", "USDT", "SETTLING")>> }

\* the "symbols" of the decoded body: an error payload has none, and
\* info.get("symbols", []) is then the empty list
Body(a, cat) ==
    IF a.transient <= RetryTotal /\ a.final = "ok" THEN cat ELSE <<>>

IsUsdtPerp(e) ==
    e.contractType = "PERPETUAL" /\ e.quoteAsset = "USDT" /\ e.status = "TRADING"

\* list_usdt_perp_symbols: the symbols of the trading USDT perpetuals, in
\* catalog order
list_usdt_perp_symbols(entries) ==
    LET out == SelectSeq(entries, IsUsdtPerp)
    IN [i \in 1..Len(out) |-> out[i].symbol]

\* mutant of reset_db: scan_runs is not deleted
reset_db_hits_only == [scan_hits |-> {}, scan_runs |-> scan_runs]

\* reset_db: DELETE FROM scan_hits; DELETE FROM scan_runs; commit
reset_db == [scan_hits |-> {}, scan_runs |-> {}]

\* create_run: INSERT INTO scan_runs; run_id is AUTOINCREMENT, one above the
\* highest ever given out, deleted rows included
create_run(table) == table \cup {RunRecord(sqlite_sequence + 1)}

\* how init_db, reset_db and create_run can end
SetupOutcomes ==
    IF storage = "ok" THEN {"ok"} ELSE {"ok", "reset_db raises", "create_run raises"}

scan_locals == <<pending, semaphore, active, finished, scanned, passed_traders,
                 inserted, insert_queue, put_log, write_log, writer_pc, main_pc,
                 result>>

\* scan_and_store_async is entered: Created(syms) holds next
Create(syms) ==
    /\ pending' = syms
    /\ semaphore' = SemaphoreSlots
    /\ active' = EmptyBag
    /\ finished' = EmptyBag
    /\ scanned' = 0
    /\ passed_traders' = 0
    /\ inserted' = 0
    /\ insert_queue' = <<>>
    /\ put_log' = <<>>
    /\ write_log' = <<>>
    /\ writer_pc' = "poll"
    /\ main_pc' = "running"
    /\ result' = None

\* asyncio.run is left: NoScan holds next
Drop ==
    /\ pending' = <<>>
    /\ semaphore' = SemaphoreSlots
    /\ active' = EmptyBag
    /\ finished' = EmptyBag
    /\ scanned' = 0
    /\ passed_traders' = 0
    /\ inserted' = 0
    /\ insert_queue' = <<>>
    /\ put_log' = <<>>
    /\ write_log' = <<>>
    /\ writer_pc' = "idle"
    /\ main_pc' = "idle"
    /\ result' = None

\* main() is started: connect, init_db (CREATE TABLE IF NOT EXISTS, no row
\* touched), reset_db, create_run.  An exception leaves main() through
\* `finally: con.close()`, which drops what was not committed.
MainSetup ==
    /\ program \notin {"load", "scan"}
    /\ sqlite_sequence < MaxRuns
    /\ exchange' = NoAnswer
    /\ \E outcome \in SetupOutcomes :
           CASE outcome = "ok" ->
                  /\ scan_hits' = reset_db.scan_hits
                  /\ scan_runs' = create_run(reset_db.scan_runs)
                  /\ sqlite_sequence' = sqlite_sequence + 1
                  /\ run_id' = sqlite_sequence + 1
                  /\ program' = "load"
             [] outcome = "reset_db raises" ->
                  /\ program' = "raised_setup"
                  /\ UNCHANGED <<scan_hits, scan_runs, sqlite_sequence, run_id>>
             [] outcome = "create_run raises" ->
                  /\ scan_hits' = reset_db.scan_hits
                  /\ scan_runs' = reset_db.scan_runs
                  /\ program' = "raised_setup"
                  /\ UNCHANGED <<sqlite_sequence, run_id>>
    /\ UNCHANGED <<storage, symbols, upstream, scan_locals, risk>>

\* symbols = list_usdt_perp_symbols(), then scan_and_store creates the tasks;
\* an exception of http_get leaves main()
LoadUniverse ==
    /\ program = "load"
    /\ \E a \in ExchangeAnswers :
       \E cat \in Catalogs :
       \E scn \in [Symbols -> Mixed] :
           /\ exchange' = a
           /\ IF http_get(a) = "raise"
              THEN /\ program' = "raised_universe"
                   /\ UNCHANGED <<symbols, upstream, scan_locals>>
              ELSE LET syms == list_usdt_perp_symbols(Body(a, cat))
                   IN /\ \A s \in Symbols \ Range(syms) : scn[s] = "lens_timeout"
                      /\ symbols' = syms
                      /\ upstream' = scn
                      /\ program' = "scan"
                      /\ Create(syms)
    /\ UNCHANGED <<storage, scan_runs, sqlite_sequence, run_id, scan_hits, risk>>

\* scan_and_store has returned or raised: main() prints the count (and
\* exports the rows to a CSV file when there are any) or lets the exception
\* through; con.close().  asyncio.run cancels the tasks still running.
MainExit ==
    /\ program = "scan"
    /\ main_pc \in {"returned", "raised"}
    /\ program' = IF main_pc = "returned" THEN "done" ELSE "raised_scan"
    /\ Drop
    /\ UNCHANGED <<storage, scan_runs, sqlite_sequence, exchange, symbols,
                   upstream, run_id, scan_hits, risk>>

NextMain ==
    \/ MainSetup
    \/ LoadUniverse
    \/ Acquire
    \/ TopAccReturns
    \/ GlobAccReturns
    \/ TopPosReturns
    \/ OpenInterestReturns
    \/ PremiumReturns
    \/ TickerReturns
    \/ KlinesReturns
    \/ SleepReturns
    \/ WriterGet
    \/ WriterTimeout
    \/ Return
    \/ MainExit

\* main() run up to MaxRuns times on a database file that starts empty
InitMain ==
    /\ storage \in {"ok", "failing"}
    /\ scan_runs = {}
    /\ sqlite_sequence = 0
    /\ exchange = NoAnswer
    /\ program = "start"
    /\ symbols = <<>>
    /\ upstream = [x \in Symbols |-> "lens_timeout"]
    /\ run_id = None
    /\ scan_hits = {}
    /\ NoScan
    /\ NoRisk

SpecMain == InitMain /\ [][NextMain]_vars

\* -------------------------------------------------- scan_on_risk.py: grading
\* Prices are whole ticks, percentages are in hundredths of a percent where a
\* fraction is needed (a spread of 0.05 % is 5, an ATR of 2 % is 200).

\* detect_drawdown_pattern(symbol, lookback_candles = 120)
LookbackCandles == 120

\* if not data or len(data) < 20: return None
MinCandles == 20

\* filtered_signals = [s for s in signals if s.get("oi_usdt", 0) >= 4_000_000]
RiskMinOI == 4000000

\* grade_oi
OI_A == 10000000
OI_B == 6000000
OI_C == 4000000

grade_oi(oi_usdt) ==
    IF oi_usdt >= OI_A THEN "A"
    ELSE IF oi_usdt >= OI_B THEN "B"
    ELSE IF oi_usdt >= OI_C THEN "C"
    ELSE "D"

\* grade_volatility(atr_pct): < 2 A, < 5 B, < 10 C, else D
grade_volatility(atr_pct) ==
    IF atr_pct < 200 THEN "A"
    ELSE IF atr_pct < 500 THEN "B"
    ELSE IF atr_pct < 1000 THEN "C"
    ELSE "D"

\* grade_spread(spread_pct): < 0.05 A, < 0.15 B, < 0.50 C, else D
grade_spread(spread_pct) ==
    IF spread_pct < 5 THEN "A"
    ELSE IF spread_pct < 15 THEN "B"
    ELSE IF spread_pct < 50 THEN "C"
    ELSE "D"

\* grade_drawdown: ratio = heavy_down_count / total_candles * 100
grade_drawdown(heavy_down_count, max_consecutive, total_candles) ==
    IF heavy_down_count * 100 < 5 * total_candles /\ max_consecutive <= 1 THEN "A"
    ELSE IF heavy_down_count * 100 < 10 * total_candles /\ max_consecutive <= 2 THEN "B"
    ELSE IF heavy_down_count * 100 < 20 * total_candles \/ max_consecutive <= 3 THEN "C"
    ELSE "D"

\* a 1-minute candle: data[i][1] is the open, data[i][4] the close
Candle(o, c) == [open |-> o, close |-> c]

\* pct_change = (close - open) / open * 100;  pct_change < -0.5
HeavyDown(k) == (k.close - k.open) * 200 < 0 - k.open

\* the state of the loop over the candles
LoopStart == [heavy_down_count |-> 0, consecutive_down_count |-> 0,
              max_consecutive |-> 0]

\* one iteration of `for i in range(len(data))`
LoopStep(acc, k) ==
    IF HeavyDown(k)
    THEN [acc EXCEPT !.heavy_down_count = @ + 1,
                     !.consecutive_down_count = @ + 1]
    ELSE [acc EXCEPT !.max_consecutive =
                         IF acc.consecutive_down_count > @
                         THEN acc.consecutive_down_count ELSE @,
                     !.consecutive_down_count = 0]

RECURSIVE Loop(_, _, _)
Loop(data, i, acc) ==
    IF i > Len(data) THEN acc ELSE Loop(data, i + 1, LoopStep(acc, data[i]))

\* a metric that is not available (the function returned None)
NoMetric == [some |-> FALSE]

stop_hunt(max_consecutive) ==
    IF max_consecutive >= 3 THEN "YES"
    ELSE IF max_consecutive = 2 THEN "CAUTION"
    ELSE "NO"

\* what detect_drawdown_pattern returns for the loop's final state acc
Drawdown(heavy, max_consecutive) ==
    [some |-> TRUE,
     heavy_down_count |-> heavy,
     max_consecutive_down |-> max_consecutive,
     grade |-> grade_drawdown(heavy, max_consecutive, LookbackCandles),
     stop_hunt_risk |-> stop_hunt(max_consecutive)]

\* mutant of detect_drawdown_pattern: the run that is still open when the
\* candles end is not compared
detect_drawdown_pattern_no_final(data) ==
    IF data = <<>> \/ Len(data) < MinCandles THEN NoMetric
    ELSE LET acc == Loop(data, 1, LoopStart)
         IN  Drawdown(acc.heavy_down_count, acc.max_consecutive)

\* detect_drawdown_pattern on the answer of the klines call; a failed call
\* gives None, which is the empty answer here
detect_drawdown_pattern(data) ==
    IF data = <<>> \/ Len(data) < MinCandles THEN NoMetric
    ELSE LET acc == Loop(data, 1, LoopStart)
             final_consecutive == acc.consecutive_down_count
         IN  Drawdown(acc.heavy_down_count,
                      IF final_consecutive > acc.max_consecutive
                      THEN final_consecutive ELSE acc.max_consecutive)

\* grade_values.get(g, 1)
grade_values(g) ==
    CASE g = "A" -> 4 [] g = "B" -> 3 [] g = "C" -> 2 [] OTHER -> 1

RECURSIVE SumOf(_)
SumOf(values) == IF values = <<>> THEN 0 ELSE Head(values) + SumOf(Tail(values))

\* the grades of analyze_coin, in the order they are put in the dict
ValuesOf(grades) ==
    <<grade_values(grades.volatility), grade_values(grades.orderbook),
      grade_values(grades.oi), grade_values(grades.drawdown)>>

\* the thresholds on statistics.mean(values), doubled: 3.5, 2.5, 1.5
Grade(values) ==
    IF values = <<>> THEN "D"
    ELSE IF 2 * SumOf(values) >= 7 * Len(values) THEN "A"
    ELSE IF 2 * SumOf(values) >= 5 * Len(values) THEN "B"
    ELSE IF 2 * SumOf(values) >= 3 * Len(values) THEN "C"
    ELSE "D"

\* mutant of calculate_final_grade: the drawdown grade is left out
calculate_final_grade_three(grades) ==
    Grade(SubSeq(ValuesOf(grades), 1, 3))

calculate_final_grade(grades) == Grade(ValuesOf(grades))

get_risk_level(grade) ==
    CASE grade = "A" -> "LOW"
      [] grade = "B" -> "MEDIUM"
      [] grade = "C" -> "HIGH"
      [] OTHER -> "VERY_HIGH"

\* ------------------------------------------------- scan_on_risk.py: the pass
\* get_volatility and get_order_book, as far as analyze_coin reads them
Volatility(atr_pct) ==
    [some |-> TRUE, atr_pct |-> atr_pct, grade |-> grade_volatility(atr_pct)]

OrderBook(spread_pct) ==
    [some |-> TRUE, spread_pct |-> spread_pct, grade |-> grade_spread(spread_pct)]

\* analyze_coin: the metrics are the returns of get_volatility and
\* get_order_book and the answer of the klines call of
\* detect_drawdown_pattern.  signal, candles and drawdown are kept for
\* reference; bid_ask_imbalance and heavy_down_ratio are left out.
analyze_coin(signal, volatility, orderbook, data) ==
    LET drawdown == detect_drawdown_pattern(data)
        grades == [volatility |-> IF volatility.some THEN volatility.grade ELSE "D",
                   orderbook  |-> IF orderbook.some THEN orderbook.grade ELSE "D",
                   oi         |-> grade_oi(signal.oi_usdt),
                   drawdown   |-> IF drawdown.some THEN drawdown.grade ELSE "D"]
        final_grade == calculate_final_grade(grades)
    IN  [symbol |-> signal.symbol,
         setup |-> signal.setup,
         oi_usdt |-> signal.oi_usdt,
         volatility_atr_pct |-> IF volatility.some THEN volatility.atr_pct ELSE None,
         spread_pct |-> IF orderbook.some THEN orderbook.spread_pct ELSE None,
         max_consecutive_down |->
             IF drawdown.some THEN drawdown.max_consecutive_down ELSE None,
         stop_hunt_risk |-> IF drawdown.some THEN drawdown.stop_hunt_risk ELSE "UNKNOWN",
         grades |-> grades,
         final_grade |-> final_grade,
         risk_level |-> get_risk_level(final_grade),
         signal |-> signal,
         candles |-> data,
         drawdown |-> drawdown]

\* the lists that hold every element of S once
Orderings(S) ==
    {q \in [1..Cardinality(S) -> S] : \A i, j \in DOMAIN q : q[i] = q[j] => i = j}

\* ORDER BY oi_usdt DESC: rows of equal open interest come in any order
ByOIDescending(q) == \A i, j \in DOMAIN q : i < j => q[i].oi_usdt >= q[j].oi_usdt

\* ORDER BY run_ts DESC LIMIT 1; run_ts is the clock at create_run, so the
\* latest run is the one of the highest run_id
LatestRun(runs) == CHOOSE r \in runs : \A q \in runs : q.run_id <= r.run_id

\* mutant of load_latest_scan: the hits of every run are selected
load_latest_scan_every_run(runs, hits) ==
    IF runs = {} THEN {<<>>}
    ELSE {q \in Orderings(hits) : ByOIDescending(q)}

\* load_latest_scan: the lists it can return for the two tables
load_latest_scan(runs, hits) ==
    IF runs = {} THEN {<<>>}
    ELSE {q \in Orderings({h \in hits : h.run_id = LatestRun(runs).run_id}) :
             ByOIDescending(q)}

\* [s for s in signals if s.get("oi_usdt", 0) >= 4_000_000]
RECURSIVE filtered_signals(_)
filtered_signals(signals) ==
    IF signals = <<>> THEN <<>>
    ELSE (IF Head(signals).oi_usdt >= RiskMinOI THEN <<Head(signals)>> ELSE <<>>)
         \o filtered_signals(Tail(signals))

\* candles at 1000 ticks: unchanged, down by exactly 0.5 %, down by 0.6 %
FlatCandle == Candle(1000, 1000)
EdgeCandle == Candle(1000, 995)
DownCandle == Candle(1000, 994)

Repeat(k, n) == [i \in 1..n |-> k]

\* the candle sequences of the market "candles": MinCandles - 1 to
\* MinCandles + 1 candles, flat but for MaxPattern candles of any kind at the
\* start or at the end
MaxPattern == 5

CandleSequences ==
    {Repeat(FlatCandle, n - MaxPattern) \o pat :
        n \in (MinCandles - 1)..(MinCandles + 1),
        pat \in [1..MaxPattern -> {FlatCandle, EdgeCandle, DownCandle}]}
    \cup
    {pat \o Repeat(FlatCandle, n - MaxPattern) :
        n \in (MinCandles - 1)..(MinCandles + 1),
        pat \in [1..MaxPattern -> {FlatCandle, EdgeCandle, DownCandle}]}

\* the klines answers of the market "grades": a failed call, too few candles,
\* and one sequence for each drawdown grade
GradeSamples ==
    {<<>>,
     Repeat(FlatCandle, MinCandles - 1),
     Repeat(FlatCandle, MinCandles),
     Repeat(DownCandle, 2) \o Repeat(FlatCandle, MinCandles),
     Repeat(DownCandle, 4) \o Repeat(FlatCandle, MinCandles),
     Repeat(DownCandle, 24)}

Markets == {"flat", "grades", "candles"}

\* what the three metrics of one coin can be in a market
Metrics(mkt) ==
    CASE mkt = "grades" ->
           [volatility : {NoMetric} \cup {Volatility(a) : a \in {199, 200, 500, 1000}},
            orderbook : {NoMetric} \cup {OrderBook(b) : b \in {4, 5, 15, 50}},
            data : GradeSamples]
      [] mkt = "candles" ->
           [volatility : {Volatility(199)}, orderbook : {OrderBook(4)},
            data : CandleSequences]
      [] OTHER ->
           [volatility : {Volatility(199)}, orderbook : {OrderBook(4)},
            data : {Repeat(FlatCandle, MinCandles)}]

\* main() of scan_on_risk.py up to analyze_all: load, filter, return when
\* there is nothing to analyse
LoadLatestScan ==
    /\ risk_pc = "start"
    /\ \E signals \in load_latest_scan(scan_runs, scan_hits) :
          LET filtered == filtered_signals(signals)
          IN  /\ todo' = filtered
              /\ risk_pc' = IF signals = <<>> \/ filtered = <<>>
                            THEN "done" ELSE "analyse"
    /\ results' = <<>>
    /\ UNCHANGED <<scanner, stored, market>>

\* analyze_all: one turn of the loop, analyze_coin and the sleep of 0.5 s
AnalyzeCoin ==
    /\ risk_pc = "analyse"
    /\ todo # <<>>
    /\ \E m \in Metrics(market) :
          results' = Append(results,
                            analyze_coin(Head(todo), m.volatility, m.orderbook, m.data))
    /\ todo' = Tail(todo)
    /\ UNCHANGED <<scanner, risk_pc, stored, market>>

\* analyze_all returns; main() exports the results and ends
Export ==
    /\ risk_pc = "analyse"
    /\ todo = <<>>
    /\ risk_pc' = "done"
    /\ UNCHANGED <<scanner, stored, market, todo, results>>

NextRisk ==
    \/ LoadLatestScan
    \/ AnalyzeCoin
    \/ Export

\* the instruments and open interests of the stored signals
RiskSymbols == {"s1", "s2"}
OpenInterests == {MIN_OI_USDT, RiskMinOI - 1, RiskMinOI, OI_B, OI_A}

\* a row of scan_hits as the scanner writes it for a crowd-short or a
\* crowd-long signal
HitRow(run, sym, setup, oi) ==
    [run_id |-> run, symbol |-> sym, setup |-> setup,
     timestamp_ms |-> 0, oi_usdt |-> oi,
     top_acc_long |-> IF setup = CROWD_SHORT THEN 30 ELSE 70,
     top_acc_short |-> IF setup = CROWD_SHORT THEN 70 ELSE 30,
     glob_acc_long |-> IF setup = CROWD_SHORT THEN 30 ELSE 70,
     glob_acc_short |-> IF setup = CROWD_SHORT THEN 70 ELSE 30,
     top_pos_long |-> 50, top_pos_short |-> 50,
     funding_rate |-> None, current_price |-> None,
     volume_24h |-> None, volume_2h |-> None]

\* the number of signals in the database
MaxSignals == 3

\* the databases the pass can find: up to MaxRuns runs, up to MaxSignals rows
\* written run after run, one row for a run, instrument and setup, every
\* instrument with one open interest
Databases ==
    {q \in UNION {[1..n -> [run : 1..MaxRuns, sym : RiskSymbols,
                            setup : {CROWD_SHORT, CROWD_LONG}]] : n \in 0..MaxSignals} :
        /\ \A i, j \in DOMAIN q : i < j => q[i].run <= q[j].run
        /\ \A i, j \in DOMAIN q : q[i] = q[j] => i = j}

InitRisk ==
    /\ storage = "ok"
    /\ \E n \in 0..MaxRuns, q \in Databases, oi \in [RiskSymbols -> OpenInterests] :
          /\ \A i \in DOMAIN q : q[i].run <= n
          /\ scan_runs = {RunRecord(id) : id \in 1..n}
          /\ sqlite_sequence = n
          /\ stored = [i \in DOMAIN q |->
                          HitRow(q[i].run, q[i].sym, q[i].setup, oi[q[i].sym])]
          /\ market \in (IF n = 1 /\ Len(q) = 1 THEN Markets ELSE {"flat"})
    /\ scan_hits = Range(stored)
    /\ exchange = NoAnswer
    /\ program = "done"
    /\ symbols = <<>>
    /\ upstream = [x \in Symbols |-> "any"]
    /\ run_id = None
    /\ NoScan
    /\ risk_pc = "start"
    /\ todo = <<>>
    /\ results = <<>>

SpecRisk == InitRisk /\ [][NextRisk]_vars

\* ===================================================================== claims
AllTasks == BagToSet(active) \cup BagToSet(finished)

\* how often symbol s has been evaluated to the end / stands in the input list
EvaluatedTimes(s) ==
    BagCardinality([t \in {u \in BagToSet(finished) : u.sym = s} |-> finished[t]])
Occurrences(s) == Cardinality({i \in DOMAIN symbols : symbols[i] = s})

\* the setup predicates of the specification, on the raw fractions of a task
\* (an unparseable or missing field is below every threshold)
HoldsA(t) ==
    /\ t.top_acc.shortAccount >= 65
    /\ t.glob_acc.shortAccount >= 65
    /\ t.top_pos.longAccount >= 45
HoldsB(t) ==
    /\ t.top_acc.longAccount >= 65
    /\ t.glob_acc.longAccount >= 65
    /\ t.top_pos.shortAccount >= 45
Satisfied(t) == (IF HoldsA(t) THEN 1 ELSE 0) + (IF HoldsB(t) THEN 1 ELSE 0)

FetchFailures == {"request", "status", "decode"}

\* the rows of task t on the queue's history (one task per symbol in SpecOne)
RowsOf(t) == {put_log[i] : i \in {j \in DOMAIN put_log : put_log[j].symbol = t.sym}}

\* ---- C1: at no point are more than 10 evaluations inside the semaphore; a
\* further instrument stays waiting while the 10 slots are taken.
C1_ConcurrencyBound ==
    /\ BagCardinality(active) <= 10
    /\ Len(pending) + BagCardinality(active) + BagCardinality(finished) = Len(symbols)

C1_Witness ==
    /\ BagCardinality(active) = 10
    /\ pending # <<>>
    /\ finished # EmptyBag

\* ---- C2: when scan_and_store_async returns, the insert queue is empty and
\* every row that was put on it has been written to storage.
C2_NoLostWork ==
    main_pc = "returned" =>
        /\ insert_queue = <<>>
        /\ write_log = put_log
        /\ \A i \in DOMAIN put_log : put_log[i] \in scan_hits

\* ---- C3: the scan terminates, and at termination the writer and all
\* evaluators have finished, scanned equals the length of the input list and
\* every list element has been evaluated exactly once.
C3_Terminates ==
    /\ <>(main_pc = "returned")
    /\ [](main_pc = "returned" =>
            /\ writer_pc = "done"
            /\ pending = <<>> /\ active = EmptyBag
            /\ scanned = Len(symbols)
            /\ \A s \in Symbols : EvaluatedTimes(s) = Occurrences(s))

C3_Witness ==
    /\ main_pc = "returned"
    /\ Len(symbols) > 10
    /\ scanned = Len(symbols)
    /\ inserted > 0

\* ---- C4 as stated: an evaluation with any fault (a failed fetch of any call,
\* or an exception in the body) contributes zero records.
C4_AnyFaultNoRecords ==
    \A t \in BagToSet(finished) :
        (t.raised \/ \E i \in DOMAIN t.got : t.got[i] \in FetchFailures) => t.rows = 0

\* a fault of a gating stage: an exception in the body, or a failed fetch of
\* one of the three lens calls or of the open-interest call
GatingFault(t) ==
    t.raised \/ \E i \in DOMAIN t.got : i <= 4 /\ t.got[i] \in FetchFailures

\* ---- C4, amended: a fault of a gating stage never aborts the scan: no
\* exception leaves process_symbol, the instrument is counted in scanned, it
\* contributes zero records, and at the end every instrument of the list has
\* been evaluated.
C4_FaultIsolation ==
    /\ main_pc # "raised"
    /\ \A t \in AllTasks : t.pc # "escaped"
    /\ scanned = BagCardinality(active) + BagCardinality(finished)
    /\ \A t \in AllTasks : GatingFault(t) => t.rows = 0
    /\ main_pc = "returned" => \A s \in Symbols : EvaluatedTimes(s) = Occurrences(s)

C4_Witness ==
    /\ main_pc = "returned"
    /\ \E t \in BagToSet(finished) : t.raised /\ t.rows = 0
    /\ \E t \in BagToSet(finished) : ~GatingFault(t) /\ t.rows > 0
    /\ scanned = Len(symbols)

\* ---- C5: no row is ever put on the queue with an open interest that is
\* absent or below MIN_OI_USDT, and an evaluation that passed the cheap filter
\* and got an open interest equal to MIN_OI_USDT emits.
C5_OpenInterestGate ==
    /\ \A i \in DOMAIN put_log :
           put_log[i].oi_usdt # None /\ put_log[i].oi_usdt >= 2500000
    /\ \A t \in BagToSet(finished) :
           (t.passed /\ t.oi_usdt = 2500000) => t.rows >= 1

C5_Witness ==
    \E i \in DOMAIN put_log : put_log[i].oi_usdt = 2500000

\* ---- C6: every row on the queue carries the fractions that justify its
\* setup tag; two rows of one instrument with different tags carry fractions
\* that satisfy both predicates.
C6_TagJustified ==
    /\ \A i \in DOMAIN put_log :
           LET r == put_log[i]
           IN /\ r.setup \in {CROWD_SHORT, CROWD_LONG}
              /\ r.setup = CROWD_SHORT =>
                     r.top_acc_short >= 65 /\ r.glob_acc_short >= 65 /\ r.top_pos_long >= 45
              /\ r.setup = CROWD_LONG =>
                     r.top_acc_long >= 65 /\ r.glob_acc_long >= 65 /\ r.top_pos_short >= 45
    /\ \A t \in AllTasks : t.rows = 2 => HoldsA(t) /\ HoldsB(t)

C6_Witness ==
    /\ Len(put_log) = 2
    /\ put_log[1].setup = CROWD_SHORT
    /\ put_log[2].setup = CROWD_LONG

\* one record per satisfied setup, the records of one evaluation alike but for
\* the tag
OnePerSetup(t) ==
    /\ t.rows = Satisfied(t)
    /\ Cardinality(RowsOf(t)) = t.rows
    /\ \A r1, r2 \in RowsOf(t) : r1 # r2 => [r1 EXCEPT !.setup = r2.setup] = r2

\* ---- C7: an evaluation with complete lens data and an open interest of at
\* least the minimum emits one record per satisfied setup, the two records
\* of an instrument that satisfies both are alike but for the tag, and at the
\* end of the scan the records are stored.
C7_OnePerSetupStored ==
    \A t \in BagToSet(finished) :
        (t.oi_usdt # None /\ t.oi_usdt >= 2500000) =>
            /\ OnePerSetup(t)
            /\ main_pc = "returned" => RowsOf(t) \subseteq scan_hits

\* C7 without its last part: what the evaluator puts on the queue
C7_OnePerSetupEmitted ==
    \A t \in BagToSet(finished) :
        (t.oi_usdt # None /\ t.oi_usdt >= 2500000) => OnePerSetup(t)

\* a lens that is unavailable, or one of the six fields that does not parse
LensUnusable(t) ==
    \/ \E i \in 1..3 : t.got[i] # "list"
    \/ \E x \in {t.top_acc.longAccount, t.top_acc.shortAccount,
                 t.glob_acc.longAccount, t.glob_acc.shortAccount,
                 t.top_pos.longAccount, t.top_pos.shortAccount} : x \in {Bad, Absent}

\* ---- C8: an evaluation with an unavailable lens or an unparseable fraction
\* ends after the three lens calls with zero records, is not counted in
\* passed_traders and raises nothing.
C8_InsufficientData ==
    /\ main_pc # "raised"
    /\ \A t \in AllTasks :
           (Len(t.got) >= 3 /\ LensUnusable(t)) =>
               /\ t.pc = "done"
               /\ t.rows = 0
               /\ ~t.passed /\ passed_traders = 0
               /\ ~t.raised
               /\ t.calls = <<"top_acc", "glob_acc", "top_pos">>

C8_Witness ==
    \E t \in BagToSet(finished) :
        /\ \A i \in 1..3 : t.got[i] = "list"
        /\ t.top_acc.timestamp = Bad
        /\ t.glob_acc.shortAccount = Bad
        /\ t.top_acc.longAccount = 65 /\ t.glob_acc.longAccount = 65
        /\ t.top_pos.shortAccount = 45

IsPrefix(a, b) == Len(a) <= Len(b) /\ \A i \in DOMAIN a : a[i] = b[i]

\* ---- C9: the calls of one evaluation are issued in stage order, each after
\* the one before it returned; the open-interest call only after three usable
\* lens answers with a setup that holds, the enrichment calls only after an
\* open interest of at least the minimum; with no setup there is no call
\* after the lens calls and no record.
C9_StagesGated ==
    \A t \in AllTasks :
        /\ IsPrefix(t.calls, <<"top_acc", "glob_acc", "top_pos", "oi",
                               "premium", "ticker", "klines">>)
        /\ Len(t.got) \in {Len(t.calls) - 1, Len(t.calls)}
        /\ Len(t.calls) >= 4 => ~LensUnusable(t) /\ (HoldsA(t) \/ HoldsB(t))
        /\ Len(t.calls) >= 5 => t.oi_usdt # None /\ t.oi_usdt >= 2500000
        /\ (Len(t.got) >= 3 /\ ~HoldsA(t) /\ ~HoldsB(t)) =>
               Len(t.calls) = 3 /\ t.rows = 0

C9_Witness ==
    \E t \in BagToSet(finished) :
        /\ ~LensUnusable(t)
        /\ ~HoldsA(t) /\ ~HoldsB(t)
        /\ t.top_acc.timestamp = 1000
        /\ t.calls = <<"top_acc", "glob_acc", "top_pos">>

\* ---- C10: an evaluation that passed the setup and open-interest gates puts
\* one row per satisfied setup on the queue whatever the premium, ticker and
\* klines calls came to, and a row (on the queue and in storage) holds None in
\* the fields whose call gave nothing.
C10_EnrichmentOptional ==
    /\ \A t \in AllTasks :
           Len(t.got) = 7 =>
               /\ t.rows = Satisfied(t) /\ t.rows >= 1
               /\ \A r \in RowsOf(t) :
                      /\ t.got[5] # "dict" => r.funding_rate = None /\ r.current_price = None
                      /\ t.got[6] # "dict" => r.volume_24h = None
                      /\ t.got[7] # "list" => r.volume_2h = None
    /\ \A r \in scan_hits : \E i \in DOMAIN put_log : put_log[i] = r

C10_Witness ==
    \E t \in BagToSet(finished) :
        /\ t.rows = 2
        /\ t.got[5] = "request" /\ t.got[6] = "status" /\ t.got[7] = "decode"
        /\ \A r \in scan_hits :
               /\ r.funding_rate = None /\ r.current_price = None
               /\ r.volume_24h = None /\ r.volume_2h = None
        /\ Cardinality(scan_hits) = 2

\* C11: the scan_hits table is what an upsert keyed by (run id, instrument,
\* setup) leaves: of the rows written so far it holds, for every key, exactly
\* the row written last under that key.  So no key has two rows, a second
\* write under a key replaces the first, and writing a row again changes
\* nothing.
SameKey(a, b) == a.run_id = b.run_id /\ a.symbol = b.symbol /\ a.setup = b.setup
LastOfKey(i) == \A j \in DOMAIN write_log : j > i => ~SameKey(write_log[i], write_log[j])
C11_UpsertByKey ==
    scan_hits = {write_log[i] : i \in {k \in DOMAIN write_log : LastOfKey(k)}}

\* an earlier row was replaced by a later one with other values, and one row
\* was written twice
C11_Witness ==
    /\ \E i \in DOMAIN write_log : write_log[i] \notin scan_hits
    /\ \E i, j \in DOMAIN write_log : i < j /\ write_log[i] = write_log[j]

\* C12: db_writer is the only writer.  A step that changes the table, the
\* record of writes or the inserted counter is a step of db_writer alone: it
\* takes the head of the queue and writes that one row, and no evaluator
\* moves in it.  A step in which an evaluator moves or puts rows on the queue
\* leaves the table as it is.
Writes == scan_hits' # scan_hits \/ write_log' # write_log \/ inserted' # inserted
EvaluatorMoves == active' # active \/ finished' # finished \/ pending' # pending
C12_SingleWriter ==
    [][ /\ Writes =>
              /\ writer_pc = "poll"
              /\ insert_queue # <<>>
              /\ insert_queue' = Tail(insert_queue)
              /\ write_log' = Append(write_log, Head(insert_queue))
              /\ inserted' = inserted + 1
              /\ ~EvaluatorMoves
        /\ (EvaluatorMoves \/ put_log' # put_log) =>
              /\ scan_hits' = scan_hits
              /\ Len(insert_queue') >= Len(insert_queue) ]_vars

\* a row has been written while another waits on the queue and an evaluator
\* that put rows on the queue is still inside the semaphore
C12_Witness ==
    /\ write_log # <<>>
    /\ insert_queue # <<>>
    /\ \E t \in BagToSet(active) : t.rows > 0

\* C13: every evaluation that has ended, whatever its outcome, went through
\* the pacing sleep before it released its slot.
C13_PacingAlways ==
    \A t \in BagToSet(finished) : t.slept

\* C13, what the code does keep: an evaluation sleeps before it releases its
\* slot exactly when it reached the end of the try block or its handler, that
\* is, when it put its rows on the queue or an exception was caught.
C13_PacingAtBlockEnd ==
    \A t \in BagToSet(finished) :
        t.slept <=> (t.raised \/ Len(t.got) = 7)

\* C14: db_writer leaves its loop only in a step in which the queue is empty
\* and every instrument has entered its evaluation (scanned >= the length of
\* the list, no task still waiting for a slot); in that step nothing is
\* written.  While scanned is below the length of the list db_writer stays in
\* its poll.
C14_DrainExit ==
    [][ /\ (writer_pc = "poll" /\ writer_pc' # "poll") =>
              /\ writer_pc' = "done"
              /\ insert_queue = <<>>
              /\ scanned >= Len(symbols)
              /\ pending = <<>>
              /\ write_log' = write_log
        /\ (writer_pc = "poll" /\ scanned < Len(symbols)) => writer_pc' = "poll" ]_vars

\* db_writer has left its loop after it wrote rows of a list of two
C14_Witness ==
    /\ writer_pc = "done"
    /\ write_log # <<>>
    /\ Len(symbols) >= 2

\* C15: once a write of db_writer has raised (a row left the queue and was
\* not written), db_writer has ended with the exception and
\* scan_and_store_async has raised it to its caller: it is not running on and
\* it has returned no count.
WriteFailed == Len(write_log) + Len(insert_queue) < Len(put_log)
C15_WriteFailureRaises ==
    WriteFailed =>
        /\ writer_pc = "raised"
        /\ main_pc = "raised"
        /\ result = None

\* a write failed after an earlier one went through, with an evaluation
\* still in flight
C15_Witness ==
    /\ WriteFailed
    /\ write_log # <<>>
    /\ main_pc = "raised"
    /\ active # EmptyBag

\* C16: the universe is loaded once per run of main(), before any evaluation
\* exists: the symbol list changes only in the step that loads it, taken when
\* no task exists, and tasks exist only during the scan that follows a load
\* that went through.  When the load fails (the retries are used up on
\* 429/5xx answers, or another error status comes), main() ends with the
\* exception, no evaluator has been started and scan_hits has no row.
UniverseFailed == exchange.final = "not_found" \/ exchange.transient > 5
NoEvaluator ==
    /\ pending = <<>>
    /\ active = EmptyBag
    /\ finished = EmptyBag
    /\ scanned = 0
    /\ put_log = <<>>
C16_UniverseOnceAndFatal ==
    [][ /\ symbols' # symbols => (program = "load" /\ NoEvaluator)
        /\ (program = "scan" /\ program' = "scan") => exchange' = exchange
        /\ ~NoEvaluator' => (program' = "scan" /\ exchange'.final = "ok")
        /\ UniverseFailed' =>
              /\ program' = "raised_universe"
              /\ NoEvaluator'
              /\ scan_hits' = {} ]_vars

\* the second run of main() ended on a failed load, after the retries
C16_Witness ==
    /\ program = "raised_universe"
    /\ run_id = 2
    /\ exchange.transient > 5

\* C17 helper: main() got past create_run in its current or last call
RunCreated == program \in {"load", "scan", "done", "raised_scan", "raised_universe"}

\* C17: from create_run on, during the scan and after it, scan_runs holds
\* exactly the record of the current run and every row of scan_hits carries
\* the run id of a record of scan_runs.
C17_OnlyCurrentRun ==
    RunCreated =>
        /\ \A r \in scan_runs : r.run_id = run_id
        /\ Cardinality(scan_runs) = 1
        /\ \A h \in scan_hits : \E r \in scan_runs : r.run_id = h.run_id

\* the second run has written rows
C17_Witness ==
    /\ program = "scan"
    /\ run_id = 2
    /\ scan_hits # {}

\* C18: in the async path a fetch never throws.  For every call of an
\* evaluation that has returned, http_get_async gave a value back and raised
\* nothing: None when the request raised, the status was not 200 or the body
\* did not decode, and data only for a 200 whose body decoded.  latest_async
\* gave an element exactly when the answer was a non-empty list, None
\* otherwise, and the only exception an evaluator body ever sees is the one
\* of the timestamp conversion.
Lenses(t) == <<t.top_acc, t.glob_acc, t.top_pos>>
C18_FetchNeverThrows ==
    \A t \in AllTasks :
        /\ Len(t.fetched) = Len(t.got)
        /\ \A i \in DOMAIN t.got :
              /\ t.fetched[i] # "raised"
              /\ t.got[i] \in {"request", "status", "decode"} => t.fetched[i] = "none"
              /\ t.fetched[i] # "none" => t.got[i] \in {"list", "dict", "empty"}
              /\ i <= 3 => (Lenses(t)[i].some <=> t.got[i] = "list")
              /\ (i = 4 /\ t.oi_usdt # None) => t.got[i] = "list"
        /\ t.raised => t.top_acc.timestamp = Bad

\* one evaluation met a request that raised, a non-200 status and a body
\* that did not decode, and ended without an exception
C18_Witness ==
    \E t \in BagToSet(finished) :
        /\ t.got = <<"request", "status", "decode">>
        /\ t.fetched = <<"none", "none", "none">>
        /\ ~t.raised

\* C19: a per-instrument call that was answered with a transient status (the
\* 500 of the failure answers) was sent again: the evaluation has sent more
\* GETs than it has had calls return.
C19_TransientRetried ==
    \A t \in AllTasks :
        (\E i \in DOMAIN t.got : t.got[i] = "status") => t.gets > Len(t.got)

\* C19, what the code does: every per-instrument call is one GET, whatever
\* the answer.
C19_OneGetPerCall ==
    \A t \in AllTasks : t.gets = Len(t.got)

\* C20 helpers: an evaluation past its three lens calls whose lenses are all
\* there, whose six fractions parse and for which setup A or setup B holds;
\* how many of the tasks in S there are, copies counted
Qualifies(t) ==
    /\ Len(t.got) >= 3
    /\ ~LensUnusable(t)
    /\ (HoldsA(t) \/ HoldsB(t))
Copies(S) == BagCardinality([t \in S |-> (active (+) finished)[t]])

\* C20 as stated: when the scan has returned, passed_traders is the number of
\* instruments that qualify.
C20_CountsQualified ==
    main_pc = "returned" =>
        passed_traders = Copies({t \in AllTasks : Qualifies(t)})

\* C20: passed_traders is at every moment, and so when the scan has
\* returned, the number of evaluations that qualify and whose top-account
\* timestamp converted to an integer; each of them was counted once, whatever
\* came of its open-interest call, and no other was counted.
C20_CountsQualifiedConverted ==
    /\ passed_traders =
           Copies({t \in AllTasks : Qualifies(t) /\ t.top_acc.timestamp # Bad})
    /\ \A t \in AllTasks :
           t.passed <=> (Qualifies(t) /\ t.top_acc.timestamp # Bad)

\* the scan has returned having counted an instrument for which both setups
\* hold and whose open-interest call failed
C20_Witness ==
    /\ main_pc = "returned"
    /\ passed_traders = 1
    /\ \E t \in BagToSet(finished) :
           /\ HoldsA(t) /\ HoldsB(t)
           /\ t.got[4] = "status"
           /\ t.rows = 0

\* C21: when the scan has returned, the count it returned is the number of
\* upserts db_writer executed; it is at least the number of rows stored, and
\* it is that number when no symbol stands twice in the list.
Distinct(q) == \A i, j \in DOMAIN q : i # j => q[i] # q[j]
C21_ReturnsWrites ==
    main_pc = "returned" =>
        /\ result = Len(write_log)
        /\ result >= Cardinality(scan_hits)
        /\ Distinct(symbols) => result = Cardinality(scan_hits)

\* a symbol listed twice was counted twice and stored once, next to another
\* instrument's rows
C21_Witness ==
    /\ main_pc = "returned"
    /\ ~Distinct(symbols)
    /\ result > Cardinality(scan_hits)
    /\ \E a, b \in scan_hits : a.symbol # b.symbol

\* C22: no permit is ever leaked.  At every moment the free permits and the
\* evaluations inside the semaphore add up to 10; every instrument of the
\* list is admitted in the end, however the evaluations before it ended; and
\* from some moment on no evaluation is waiting or running and all 10 permits
\* are free.
C22_NoPermitLeak ==
    /\ [](semaphore + BagCardinality(active) = 10)
    /\ <>[](pending = <<>> /\ active = EmptyBag /\ semaphore = 10)

\* all permits are free again after more evaluations than permits, some
\* ended by an early return and one after putting its records on the queue
C22_Witness ==
    /\ Len(symbols) > 10
    /\ pending = <<>>
    /\ active = EmptyBag
    /\ semaphore = 10
    /\ \E t \in BagToSet(finished) : t.rows = 2 /\ t.slept
    /\ \E t \in BagToSet(finished) : Len(t.got) = 3 /\ ~t.slept

\* C23: in every state of a scan scanned <= total_symbols, passed_traders <=
\* scanned and inserted <= rows put on the queue so far <= 2 * passed_traders;
\* and no increment is lost or made twice: scanned is the number of
\* evaluations entered, passed_traders the number of them that passed the
\* cheap filter, inserted the number of writes.
C23_Counters ==
    /\ scanned <= Len(symbols)
    /\ passed_traders <= scanned
    /\ inserted <= Len(put_log)
    /\ Len(put_log) <= 2 * passed_traders
    /\ scanned = BagCardinality(active (+) finished)
    /\ scanned + Len(pending) = Len(symbols)
    /\ passed_traders = Copies({t \in AllTasks : t.passed})
    /\ inserted = Len(write_log)

\* three evaluations interleaved, two of them passed and all their rows
\* written: the last two bounds are met
C23_Witness ==
    /\ scanned = 3
    /\ passed_traders = 2
    /\ inserted = 4
    /\ Len(put_log) = 4
    /\ active # EmptyBag

\* C24: db_writer writes the rows in the order they were put on the queue:
\* the rows written so far, followed by the rows still queued, are the rows
\* put so far.  For an instrument with both setups the crowd-short row is put,
\* and so written, right before its crowd-long row.
BothRow(r) ==
    /\ r.top_acc_short >= 65 /\ r.glob_acc_short >= 65 /\ r.top_pos_long >= 45
    /\ r.top_acc_long >= 65 /\ r.glob_acc_long >= 65 /\ r.top_pos_short >= 45
C24_WriteOrder ==
    /\ put_log = write_log \o insert_queue
    /\ \A i \in DOMAIN put_log :
          BothRow(put_log[i]) =>
              IF put_log[i].setup = "CROWD_SHORT__TOP_LONG"
              THEN /\ i + 1 \in DOMAIN put_log
                   /\ put_log[i + 1] = [put_log[i] EXCEPT !.setup = "CROWD_LONG__TOP_SHORT"]
              ELSE /\ i - 1 \in DOMAIN put_log
                   /\ put_log[i - 1] = [put_log[i] EXCEPT !.setup = "CROWD_SHORT__TOP_LONG"]

\* no order across instruments: the rows of the second instrument of the list
\* were written, short before long, before a row of the first
C24_Witness ==
    /\ Len(symbols) = 2
    /\ Len(write_log) = 3
    /\ write_log[1].symbol = symbols[2]
    /\ write_log[1].setup = "CROWD_SHORT__TOP_LONG"
    /\ write_log[2].symbol = symbols[2]
    /\ write_log[2].setup = "CROWD_LONG__TOP_SHORT"
    /\ write_log[3].symbol = symbols[1]
    /\ symbols[1] # symbols[2]

\* C25: the setups are mirror images and independent.  For the six fractions
\* of every evaluation whose lenses are usable, swapping long and short in
\* each lens swaps the values of setup_a and setup_b; and setup_a does not
\* change when the three fractions setup_b tests are changed, nor setup_b when
\* those of setup_a are.
SwapLens(l) == [l EXCEPT !.longAccount = l.shortAccount, !.shortAccount = l.longAccount]
Swap(t) == [t EXCEPT !.top_acc = SwapLens(@), !.glob_acc = SwapLens(@),
                     !.top_pos = SwapLens(@)]
WithLongSide(t, x, y, z) ==
    [t EXCEPT !.top_acc.longAccount = x, !.glob_acc.longAccount = y,
              !.top_pos.shortAccount = z]
WithShortSide(t, x, y, z) ==
    [t EXCEPT !.top_acc.shortAccount = x, !.glob_acc.shortAccount = y,
              !.top_pos.longAccount = z]
C25_MirrorAndIndependent ==
    \A t \in AllTasks :
        (Len(t.got) >= 3 /\ ~LensUnusable(t)) =>
            /\ setup_a(Swap(t)) = setup_b(t)
            /\ setup_b(Swap(t)) = setup_a(t)
            /\ \A x, y \in {64, 65} : \A z \in {44, 45} :
                  /\ setup_a(WithLongSide(t, x, y, z)) = setup_a(t)
                  /\ setup_b(WithShortSide(t, x, y, z)) = setup_b(t)

\* an evaluation for which setup A holds and setup B does not, one fraction
\* of B just below its threshold
C25_Witness ==
    \E t \in BagToSet(finished) :
        /\ HoldsA(t) /\ ~HoldsB(t)
        /\ t.top_acc.longAccount = 65 /\ t.glob_acc.longAccount = 64
        /\ t.passed

\* C26 helpers: x is a value that is there and is numeric; the enrichment
\* calls of t that were answered with a body of the right kind
Numeric(x) == x # Absent /\ x # Bad
PremiumAnswered(t) == Len(t.got) >= 5 /\ t.got[5] = "dict"
TickerAnswered(t) == Len(t.got) >= 6 /\ t.got[6] = "dict"
KlinesAnswered(t) == Len(t.got) >= 7 /\ t.got[7] = "list"

\* the two volumes do not depend on each other: each is the number its own
\* call was answered with, whatever became of the other call
VolumesIndependent(t) ==
    /\ (TickerAnswered(t) /\ Numeric(t.raw.ticker.volume)) =>
          t.volume_24h = t.raw.ticker.volume
    /\ (KlinesAnswered(t) /\ Numeric(t.raw.klines.quoteVolume)) =>
          t.volume_2h = t.raw.klines.quoteVolume

\* C26: the enrichment fields are individually optional.  A mark price that
\* is there and numeric comes back whatever the funding rate is (absent,
\* unparseable or numeric), and the other way round; and the two volumes do
\* not depend on each other.
C26_FieldsIndividuallyOptional ==
    \A t \in AllTasks :
        /\ (PremiumAnswered(t) /\ Numeric(t.raw.premium.markPrice)) =>
              t.current_price = t.raw.premium.markPrice
        /\ (PremiumAnswered(t) /\ Numeric(t.raw.premium.lastFundingRate)) =>
              t.funding_rate = t.raw.premium.lastFundingRate
        /\ VolumesIndependent(t)

\* C26, what the code does keep: the same when the other premium field is
\* absent or numeric; an unparseable one makes both come back as None.
C26_OptionalUnlessUnparseable ==
    \A t \in AllTasks :
        /\ (PremiumAnswered(t) /\ Numeric(t.raw.premium.markPrice)
             /\ t.raw.premium.lastFundingRate # Bad) =>
              t.current_price = t.raw.premium.markPrice
        /\ (PremiumAnswered(t) /\ Numeric(t.raw.premium.lastFundingRate)
             /\ t.raw.premium.markPrice # Bad) =>
              t.funding_rate = t.raw.premium.lastFundingRate
        /\ (PremiumAnswered(t) /\ Bad \in {t.raw.premium.markPrice,
                                           t.raw.premium.lastFundingRate}) =>
              (t.current_price = None /\ t.funding_rate = None)
        /\ VolumesIndependent(t)

\* a candle whose open-to-close change is below -0.5 % of its open
IsHeavy(k) == (k.close - k.open) * 1000 < 0 - 5 * k.open

\* the candles i .. i + n - 1 of data are all heavy
RunAt(data, i, n) == \A j \in i..(i + n - 1) : IsHeavy(data[j])

HasRun(data, n) == \E i \in 1..(Len(data) - n + 1) : RunAt(data, i, n)

\* the length of the longest run of consecutive heavy candles
LongestRun(data) ==
    CHOOSE n \in 0..Len(data) :
        HasRun(data, n) /\ \A m \in (n + 1)..Len(data) : ~HasRun(data, m)

HeavyCount(data) == Cardinality({i \in DOMAIN data : IsHeavy(data[i])})

\* ---- C27: for every analysed coin whose klines answer has at least 20
\* candles, the drawdown metric is available, max_consecutive_down is the
\* length of the longest run of consecutive candles that fell by more than
\* 0.5 % (a run that ends at the last candle included), heavy_down_count is
\* the number of such candles, and stop_hunt_risk is YES for a longest run of
\* 3 or more, CAUTION for exactly 2 and NO otherwise; the result carries the
\* same run length and flag.
C27_DrawdownPattern ==
    \A i \in DOMAIN results :
        LET r == results[i]
            longest == LongestRun(r.candles)
        IN  Len(r.candles) >= 20 =>
                /\ r.drawdown.some
                /\ r.drawdown.max_consecutive_down = longest
                /\ r.drawdown.heavy_down_count = HeavyCount(r.candles)
                /\ (r.drawdown.stop_hunt_risk = "YES") = (longest >= 3)
                /\ (r.drawdown.stop_hunt_risk = "CAUTION") = (longest = 2)
                /\ (r.drawdown.stop_hunt_risk = "NO") = (longest < 2)
                /\ r.max_consecutive_down = longest
                /\ r.stop_hunt_risk = r.drawdown.stop_hunt_risk

\* a coin was analysed on at least 20 candles whose longest run of heavy
\* candles has 3 candles or more, ends at the last candle and is longer than
\* every earlier run, with a candle of exactly -0.5 % among the others
C27_Witness ==
    \E i \in DOMAIN results :
        LET r == results[i]
            n == Len(r.candles)
        IN  /\ n >= 20
            /\ r.drawdown.some
            /\ r.drawdown.max_consecutive_down >= 3
            /\ r.stop_hunt_risk = "YES"
            /\ RunAt(r.candles, n - 2, 3)
            /\ ~HasRun(SubSeq(r.candles, 1, n - 3), 1)
            /\ \E j \in 1..n : r.candles[j].close * 1000 = r.candles[j].open * 995
            /\ r.drawdown.heavy_down_count = 3

\* the value of a grade: A = 4 .. D = 1
Val(g) == CASE g = "A" -> 4 [] g = "B" -> 3 [] g = "C" -> 2 [] g = "D" -> 1

Components == {"volatility", "orderbook", "oi", "drawdown"}

\* four times the mean of the component values of result r
Total(r) ==
    Val(r.grades.volatility) + Val(r.grades.orderbook)
    + Val(r.grades.oi) + Val(r.grades.drawdown)

\* ---- C28: every result has exactly the four component grades volatility,
\* orderbook, oi and drawdown, a component whose metric is unavailable being
\* D; the final grade is A, B, C or D as the mean of the component values
\* (A = 4 .. D = 1) is at least 3.5, at least 2.5, at least 1.5 or lower;
\* raising one component never lowers the final grade; risk_level is LOW,
\* MEDIUM, HIGH, VERY_HIGH for A, B, C, D.
C28_FinalGrade ==
    \A i \in DOMAIN results :
        LET r == results[i]
        IN  /\ DOMAIN r.grades = Components
            /\ \A c \in Components : r.grades[c] \in {"A", "B", "C", "D"}
            /\ r.volatility_atr_pct = None => r.grades.volatility = "D"
            /\ r.spread_pct = None => r.grades.orderbook = "D"
            /\ ~r.drawdown.some => r.grades.drawdown = "D"
            /\ (r.final_grade = "A") = (2 * Total(r) >= 7 * 4)
            /\ (r.final_grade = "B") = (2 * Total(r) >= 5 * 4 /\ 2 * Total(r) < 7 * 4)
            /\ (r.final_grade = "C") = (2 * Total(r) >= 3 * 4 /\ 2 * Total(r) < 5 * 4)
            /\ (r.final_grade = "D") = (2 * Total(r) < 3 * 4)
            /\ \A c \in Components, g \in {"A", "B", "C", "D"} :
                  Val(g) >= Val(r.grades[c]) =>
                      Val(calculate_final_grade([r.grades EXCEPT ![c] = g]))
                          >= Val(r.final_grade)
            /\ (r.risk_level = "LOW") = (r.final_grade = "A")
            /\ (r.risk_level = "MEDIUM") = (r.final_grade = "B")
            /\ (r.risk_level = "HIGH") = (r.final_grade = "C")
            /\ (r.risk_level = "VERY_HIGH") = (r.final_grade = "D")

\* a coin was analysed whose volatility was unavailable and whose component
\* values have a mean of exactly 2.5: its final grade is B, its risk MEDIUM
C28_Witness ==
    \E i \in DOMAIN results :
        LET r == results[i]
        IN  /\ r.volatility_atr_pct = None
            /\ r.grades.volatility = "D"
            /\ r.drawdown.some
            /\ Total(r) = 10
            /\ r.final_grade = "B"
            /\ r.risk_level = "MEDIUM"

\* the signals the pass has analysed followed by those it is still to analyse
Analysed == [i \in DOMAIN results |-> results[i].signal] \o todo

\* a stored signal of the latest run with an open interest of 4,000,000 or more
Eligible(h) ==
    /\ \A r \in scan_runs : r.run_id <= h.run_id
    /\ h.oi_usdt >= 4000000

\* results only grows, by the result of the first signal still to analyse
OneAtATime ==
    [][results' # results =>
          /\ todo # <<>>
          /\ Len(results') = Len(results) + 1
          /\ SubSeq(results', 1, Len(results)) = results
          /\ results'[Len(results')].signal = Head(todo)
          /\ todo' = Tail(todo)]_vars

\* the open-interest grade of a result is A, B or C by 10M / 6M / 4M
OIGrades ==
    \A i \in DOMAIN results :
        LET r == results[i]
        IN  /\ r.grades.oi # "D"
            /\ (r.grades.oi = "A") = (r.oi_usdt >= 10000000)
            /\ (r.grades.oi = "B") = (r.oi_usdt >= 6000000 /\ r.oi_usdt < 10000000)
            /\ (r.grades.oi = "C") = (r.oi_usdt >= 4000000 /\ r.oi_usdt < 6000000)

\* ---- C29 as stated: once the signals are loaded, the signals analysed and to
\* analyse are the stored signals of the latest run with an open interest of
\* at least 4,000,000, in the order they were stored; they are analysed one
\* at a time with one result each; no result has OI grade D, and the OI grade
\* is A, B or C by the 10M / 6M / 4M thresholds.
C29_StoredOrder ==
    /\ [](risk_pc # "start" =>
            /\ Analysed = SelectSeq(stored, Eligible)
            /\ (risk_pc = "done" => todo = <<>>)
            /\ OIGrades)
    /\ OneAtATime

\* ---- C29, amended: as above, but the order is that of descending open
\* interest (signals of equal open interest in any order), whatever the order
\* in which the signals were stored.
C29_DescendingOI ==
    /\ [](risk_pc # "start" =>
            /\ Range(Analysed) = {h \in scan_hits : Eligible(h)}
            /\ Len(Analysed) = Cardinality({h \in scan_hits : Eligible(h)})
            /\ \A i, j \in DOMAIN Analysed :
                  i < j => Analysed[i].oi_usdt >= Analysed[j].oi_usdt
            /\ (risk_pc = "done" => todo = <<>>)
            /\ OIGrades)
    /\ OneAtATime

\* the pass has ended with two results; the signal analysed first was stored
\* after the other one and has the higher open interest; a signal of an
\* earlier run with enough open interest was not analysed
C29_Witness ==
    /\ risk_pc = "done"
    /\ Len(results) = 2
    /\ results[1].oi_usdt > results[2].oi_usdt
    /\ \E i, j \in DOMAIN stored :
          /\ i < j
          /\ stored[i] = results[2].signal
          /\ stored[j] = results[1].signal
    /\ \E k \in DOMAIN stored :
          /\ stored[k].oi_usdt >= 4000000
          /\ \A i \in DOMAIN results : results[i].signal # stored[k]

====
